---- MODULE Spec2Model ----
(***************************************************************************)
(* Real-time proctoring alert pipeline of backend/main.py:                 *)
(* the Socket.IO handlers analyze_frame and tab_switch_detected, the       *)
(* session registry (join_exam_session / disconnect), the REST handler     *)
(* submit_exam, and the classifier front end of backend/ai_service.py.     *)
(*                                                                         *)
(* Execution model.  The Socket.IO handlers are coroutines of one asyncio  *)
(* event loop: a handler runs without interruption by another handler      *)
(* until it reaches an `await` (every `await sio.emit`).  The classifier   *)
(* call ai_service.analyze_frame and the database calls are synchronous:   *)
(* while a handler is inside one of them it keeps the loop (variable       *)
(* `loop`), and only code outside the loop can take steps: the clients      *)
(* (which send signals that wait for dispatch) and submit_exam,            *)
(* a plain `def` route that FastAPI runs on a worker thread.               *)
(*                                                                         *)
(* Persistence.  Every handler opens its own ORM session (SessionLocal()), *)
(* loads the ExamSession row into it once (`sess`), changes the loaded     *)
(* object in memory and writes the changed attributes back at db.commit(). *)
(* exam_sessions / monitoring_events / submissions hold the committed      *)
(* rows.                                                                   *)
(***************************************************************************)
EXTENDS Integers, Sequences, FiniteSets, TLC

\* ---------------------------------------------------------------- bounds
NumHandlers == 2
MaxTime == 2
\* Exam.cheating_threshold of the exam the sessions belong to (models.py:57,
\* set by the exam's creator)
ExamThreshold == 4
\* largest confidence (in tenths) and severity a classifier payload carries
MaxConfidenceIn == 12
MaxSeverityIn == 7
\* most events of a session when its behaviour report is asked for
MaxReportEvents == 10

\* ------------------------------------------------------ program constants
\* minimum interval of the throttle, main.py:158 (time units)
MinInterval == 2
\* ALERT_CONFIDENCE_THRESHOLD default 0.7, in tenths, ai_service.py:17
confidence_threshold == 7
\* positive feedback cadence, main.py:182
FeedbackEvery == 15
\* fixed severity of a tab switch event, main.py:305 and 312
TabSwitchSeverity == 2
\* fixed confidence of a tab switch event, 1.0 in hundredths, main.py:303
TabSwitchConfidence == 100

Sessions == {1, 2}
Sockets == {"sockA"}
Handlers == 1..NumHandlers

NoSocket == "no_socket"

\* the students and exams of the sessions (ExamSession.student_id, exam_id)
Students == {"stu1", "stu2"}
Exams == {"exam1", "exam2"}
StudentOf(s) == IF s = 1 THEN "stu1" ELSE "stu2"
ExamOf(s) == "exam1"

\* active_sessions.get(session_id, {}): no entry
NoEntry == [socket_id |-> NoSocket, student_id |-> "", exam_id |-> ""]

\* `registry_op` before any join or disconnect
NoRegistryOp ==
  [op |-> "none", socket_id |-> NoSocket, session_id |-> 0, student_id |-> "",
   exam_id |-> "", before |-> [s \in Sessions |-> NoEntry]]
NoMark == -1
NoCount == -1
NoTime == -1

\* models.py AlertType: the members of the enumeration, by value
AlertType ==
  {"looking_away", "multiple_people", "phone_detected",
   "reading_from_material", "tab_switch", "suspicious_activity"}

\* ai_service.py:259 valid_alert_types of the Ollama normaliser
valid_alert_types ==
  {"looking_away", "multiple_people", "phone_detected",
   "reading_from_material", "suspicious_activity", "none"}

VARIABLES
  clock,               \* datetime.utcnow(), in time units
  backend,             \* configuration of AIProctorService.__init__
  active_sessions,     \* main.py:71   session_id -> {socket_id, student_id, exam_id}
  ongoing_analysis,    \* main.py:73   session_id -> timestamp
  good_behavior_count, \* main.py:75   session_id -> count
  exam_sessions,       \* committed rows of table exam_sessions
  monitoring_events,   \* committed rows of table monitoring_events
  submissions,         \* committed rows of table submissions (by session id)
  emitted,             \* every sio.emit made so far, in order
  started,             \* the sessions that students have started (rows exist)
  task,                \* one record per handler invocation
  loop,                \* handler that holds the event loop in a blocking call, or 0
  last_start,          \* history: start time of the last admitted analysis, per session
  norm,                \* one call of the classifier front end on its own: input and results
  registry_op,         \* history: the last join or disconnect and the registry before it
  report               \* the last answer of get_behavior_report and the events it was made from

vars ==
  <<clock, backend, active_sessions, ongoing_analysis, good_behavior_count,
    exam_sessions, monitoring_events, submissions, emitted, started, task, loop, last_start, norm,
    registry_op, report>>

\* ------------------------------------------------------------ classifier
\* A classifier payload is a JSON object: `has` is the set of keys present.
AllKeys == {"is_suspicious", "confidence", "severity", "alert_type"}

Payload(hs, f, c, sv, k) ==
  [has |-> hs, is_suspicious |-> f, confidence |-> c, severity |-> sv, alert_type |-> k]

\* dict.get(key, default)
Get(a, key, default) == IF key \in a.has THEN a[key] ELSE default

\* The payloads the classifier is taken to answer with (confidence in tenths).
Payloads ==
  { Payload(AllKeys, FALSE, 9, 1, "none"),
    Payload(AllKeys, TRUE, 9, 5, "phone_detected"),
    Payload(AllKeys, TRUE, 8, 4, "looking_away"),
    Payload(AllKeys, TRUE, 9, 2, "none"),
    Payload(AllKeys, TRUE, 10, 3, "bogus_value"),
    Payload(AllKeys, TRUE, 5, 4, "multiple_people"),
    Payload({"is_suspicious", "confidence"}, TRUE, 9, 0, "") }

\* What the classifier call can end in: a payload, or a transport error,
\* timeout or unparseable answer.
ClassifierFailure == Payload({"error"}, FALSE, 0, 0, "")

Outcomes == Payloads \cup {ClassifierFailure}

Failed(o) == "error" \in o.has

Clamp(lo, hi, x) == IF x < lo THEN lo ELSE IF x > hi THEN hi ELSE x

\* ai_service.py:119-123, 293-297, 300-304: the record returned on any failure
FailureAnalysis ==
  [has |-> {"error", "is_suspicious", "confidence"},
   is_suspicious |-> FALSE, confidence |-> 0, severity |-> 0, alert_type |-> ""]

\* FailureDecision failing open: a failed call counts as suspicious
FailureDecisionFailOpen == TRUE

\* ai_service.py:119, 293, 300: `return False, {...}` of every except clause
FailureDecision == FALSE

NoAnalysis ==
  [has |-> {}, is_suspicious |-> FALSE, confidence |-> 0, severity |-> 0, alert_type |-> ""]

\* NormalizeAlertType with the wrong fallback: an unknown kind becomes a real one
NormalizeAlertTypeFallbackSuspicious(p) ==
  IF Get(p, "alert_type", "none") \in valid_alert_types
    THEN Get(p, "alert_type", "none")
    ELSE "suspicious_activity"

\* ai_service.py:262-265
NormalizeAlertType(p) ==
  IF Get(p, "alert_type", "none") \in valid_alert_types
    THEN Get(p, "alert_type", "none")
    ELSE "none"

\* OllamaNormalize taking the confidence for a percentage
OllamaNormalizePercent(p) ==
  [has |-> AllKeys,
   is_suspicious |-> Get(p, "is_suspicious", FALSE),
   confidence |-> Clamp(0, 10, Get(p, "confidence", 5) \div 10),
   severity |-> Clamp(1, 5, Get(p, "severity", 1)),
   alert_type |-> NormalizeAlertType(p)]

\* ai_service.py:258-279: the validated record of the Ollama path
OllamaNormalize(p) ==
  [has |-> AllKeys,
   is_suspicious |-> Get(p, "is_suspicious", FALSE),
   confidence |-> Clamp(0, 10, Get(p, "confidence", 5)),
   severity |-> Clamp(1, 5, Get(p, "severity", 1)),
   alert_type |-> NormalizeAlertType(p)]

\* ai_service.py:125-304  _analyze_with_ollama; thr is self.confidence_threshold
AnalyzeWithOllama(o, thr) ==
  IF Failed(o)
    THEN [raised |-> FALSE, is_suspicious |-> FailureDecision, analysis |-> FailureAnalysis]
    ELSE LET a == OllamaNormalize(o)
         IN [raised |-> FALSE,
             is_suspicious |-> a.is_suspicious /\ a.confidence >= thr,
             analysis |-> a]

\* ai_service.py:34-123  _analyze_with_openai: the parsed payload is returned as it is
AnalyzeWithOpenAI(o, thr) ==
  IF Failed(o)
    THEN [raised |-> FALSE, is_suspicious |-> FailureDecision, analysis |-> FailureAnalysis]
    ELSE [raised |-> FALSE,
          is_suspicious |-> Get(o, "is_suspicious", FALSE)
                            /\ Get(o, "confidence", 0) >= thr,
          analysis |-> o]

\* ai_service.py:22-32  AIProctorService.analyze_frame
ServiceAnalyzeFrame(b, o, thr) ==
  IF b = "ollama" THEN AnalyzeWithOllama(o, thr)
  ELSE IF b = "openai" THEN AnalyzeWithOpenAI(o, thr)
  ELSE [raised |-> TRUE, is_suspicious |-> FALSE, analysis |-> NoAnalysis]

\* `norm` while no separate call of the front end is being followed
NoNorm ==
  [stage |-> "off", backend |-> "", threshold |-> 0, payload |-> NoAnalysis,
   record |-> NoAnalysis, decision |-> FALSE, again |-> NoAnalysis,
   again_decision |-> FALSE]

\* ------------------------------------------------------------ persistence
NewSessionRow ==
  [cheating_score |-> 0, total_alerts |-> 0, is_submitted |-> FALSE,
   auto_submitted |-> FALSE, end_time |-> NoTime]

NoRow ==
  [cheating_score |-> -1, total_alerts |-> -1, is_submitted |-> FALSE,
   auto_submitted |-> FALSE, end_time |-> NoTime]

\* MonitoringEvent rows; confidence is kept in hundredths
NoEvent ==
  [session_id |-> 0, event_type |-> "", severity |-> 0, confidence |-> 0,
   evidence_url |-> ""]

\* `report` before any report was asked for
NoReport ==
  [state |-> "none", session_id |-> 0, events |-> <<>>, total_alerts |-> 0,
   alert_breakdown |-> <<>>, risk_score |-> 0, summary |-> ""]

\* db.commit() of a loaded ExamSession: the UPDATE carries the attributes the
\* handler assigned, with the values of its in-memory object
WriteBack(row, sess, dirty) ==
  [a \in DOMAIN row |-> IF a \in dirty THEN sess[a] ELSE row[a]]

\* ------------------------------------------------------------ handler tasks
\* History kept in a task: `verdict` is how the classifier call ended (clean,
\* suspicious, raised), `upload` how the evidence upload ended (url, none,
\* raised), `outcome` how the handler ended (returned, or raised to its caller).
IdleTask ==
  [op |-> "none", sid |-> 0, pc |-> "idle", kind |-> "",
   sess |-> NoRow, dirty |-> {}, event |-> NoEvent,
   during |-> FALSE, late |-> FALSE,
   verdict |-> "", upload |-> "", outcome |-> ""]

\* the handler returns: its ORM session is closed and its locals are dropped
Finish(t) ==
  [t EXCEPT !.pc = "done", !.sess = NoRow, !.dirty = {}, !.event = NoEvent,
            !.during = FALSE, !.late = FALSE, !.upload = "", !.outcome = "returned"]

\* an exception leaves the handler
Raise(t) == [Finish(t) EXCEPT !.outcome = "raised"]

InFlight(s) == \E g \in Handlers : task[g].pc = "classify" /\ task[g].sid = s

\* a field a message does not carry
NoField == -1

Emit(name, s, h) ==
  [name |-> name, session_id |-> s, by |-> h,
   warning_count |-> NoField, cheating_score |-> NoField, threshold |-> NoField]

\* main.py:248: `exam` is first assigned at 253, after the warning is sent,
\* so 'exam' in locals() is false and the field is the literal 10
WarningThreshold == 10

\* main.py:242-249 and 318-324: the cheating_warning payload, from the
\* handler's session object; only analyze_frame's has a threshold field
Warning(s, h, sess, thr) ==
  [Emit("cheating_warning", s, h) EXCEPT !.warning_count = sess.total_alerts,
                                         !.cheating_score = sess.cheating_score,
                                         !.threshold = thr]

\* main.py:239-249 and 315-324: the warning goes to the student's socket, if any
WarnStudent(log, s, msg) ==
  IF active_sessions[s].socket_id # NoSocket
    THEN Append(log, msg)
    ELSE log

\* NotifyProctors with the student's warning sent after the broadcast
NotifyProctorsThenWarn(log, s, h) ==
  WarnStudent(Append(log, Emit("cheating_alert", s, h)), s, Emit("cheating_warning", s, h))

\* NotifyProctors only while the student is connected
NotifyProctorsIfConnected(log, s, h) ==
  IF active_sessions[s].socket_id # NoSocket
    THEN Append(log, Emit("cheating_alert", s, h))
    ELSE log

\* main.py:270-280 and 329-337: the broadcast to the proctor room of the exam
NotifyProctors(log, s, h) == Append(log, Emit("cheating_alert", s, h))

\* The state after start-up, with the ExamSession rows of the sessions in
\* `ss` created by start_exam_session (main.py:603-610); `counts` are the
\* values their good-behaviour counters can have (NoCount: no entry yet) and
\* `norms` the values of `norm`
InitWith(ss, backends, counts, norms) ==
  /\ clock = 0
  /\ started = ss
  /\ backend \in backends
  /\ active_sessions = [s \in Sessions |-> NoEntry]
  /\ registry_op = NoRegistryOp
  /\ report = NoReport
  /\ ongoing_analysis = [s \in Sessions |-> NoMark]
  /\ good_behavior_count \in
       {[s \in Sessions |-> IF s \in ss THEN c ELSE NoCount] : c \in counts}
  /\ exam_sessions = [s \in Sessions |-> IF s \in ss THEN NewSessionRow ELSE NoRow]
  /\ monitoring_events = <<>>
  /\ submissions = {}
  /\ emitted = <<>>
  /\ task = [h \in Handlers |-> IdleTask]
  /\ loop = 0
  /\ last_start = [s \in Sessions |-> NoTime]
  /\ norm \in norms

Backends == {"ollama", "openai", "unconfigured"}

Init == InitWith({1}, Backends, {NoCount}, {NoNorm})

\* ------------------------------------------------------------ environment
\* datetime.utcnow(): a reading t of the wall clock, not before the last one
Now(t) == t \in clock..MaxTime

\* Join keeping the entry a session already has
JoinKeepFirst(reg, s, k, st, ex) ==
  IF reg[s] = NoEntry
    THEN [reg EXCEPT ![s] = [socket_id |-> k, student_id |-> st, exam_id |-> ex]]
    ELSE reg

\* main.py:129-133: the entry of the session is written
Join(reg, s, k, st, ex) ==
  [reg EXCEPT ![s] = [socket_id |-> k, student_id |-> st, exam_id |-> ex]]

\* DropSocket removing every entry
DropSocketAll(reg, k) == [s \in DOMAIN reg |-> NoEntry]

\* main.py:118-120: the entries registered on socket k are deleted
DropSocket(reg, k) ==
  [s \in DOMAIN reg |-> IF reg[s].socket_id = k THEN NoEntry ELSE reg[s]]

\* main.py:806-815  get_live_sessions
GetLiveSessions(reg) ==
  { [session_id |-> s, student_id |-> reg[s].student_id, exam_id |-> reg[s].exam_id] :
      s \in {x \in DOMAIN reg : reg[x] # NoEntry} }

\* main.py:122-136  join_exam_session
\* (the session_joined acknowledgement to the joining socket is not logged;
\* a join that repeats the session's entry changes nothing and is no step)
JoinExamSession(k, s, st, ex) ==
  /\ loop = 0
  /\ s \in started
  /\ active_sessions[s] # [socket_id |-> k, student_id |-> st, exam_id |-> ex]
  /\ active_sessions' = Join(active_sessions, s, k, st, ex)
  /\ registry_op' = [op |-> "join", socket_id |-> k, session_id |-> s, student_id |-> st,
                     exam_id |-> ex, before |-> active_sessions]
  /\ UNCHANGED <<clock, backend, ongoing_analysis, good_behavior_count,
                 exam_sessions, monitoring_events, submissions, emitted, started, task, loop, last_start>>
  /\ UNCHANGED <<norm, report>>

\* main.py:114-120  disconnect of a socket that has entries
Disconnect(k) ==
  /\ loop = 0
  /\ \E s \in Sessions : active_sessions[s].socket_id = k
  /\ active_sessions' = DropSocket(active_sessions, k)
  /\ registry_op' = [NoRegistryOp EXCEPT !.op = "disconnect", !.socket_id = k,
                                         !.before = active_sessions]
  /\ UNCHANGED <<clock, backend, ongoing_analysis, good_behavior_count,
                 exam_sessions, monitoring_events, submissions, emitted, started, task, loop, last_start>>
  /\ UNCHANGED <<norm, report>>

\* A client sends analyze_frame or tab_switch_detected for session s; the
\* message waits until the event loop dispatches it.  Handler slots are taken
\* in order.  `during` and `late` record what was the case when it was sent.
Signal(h, op, s) ==
  /\ task[h].pc = "idle"
  /\ \A g \in Handlers : g < h => task[g].pc # "idle"
  /\ s \in started
  /\ task' = [task EXCEPT ![h] =
       [@ EXCEPT !.op = op, !.sid = s, !.pc = "pending",
                 !.during = InFlight(s),
                 !.late = exam_sessions[s].is_submitted]]
  /\ UNCHANGED <<clock, backend, active_sessions, ongoing_analysis, good_behavior_count,
                 exam_sessions, monitoring_events, submissions, emitted, started, loop, last_start>>
  /\ UNCHANGED <<norm, registry_op, report>>

\* ------------------------------------------------------------ analyze_frame
\* main.py:155-159: the frame is skipped
Throttled(oa, s, now) == oa[s] # NoMark /\ now - oa[s] < MinInterval

\* ClearOngoing with the deletion forgotten
ClearOngoingForgotten(oa, s) == oa

\* main.py:168-169 and 288-289
ClearOngoing(oa, s) == [oa EXCEPT ![s] = NoMark]

\* ResetGood leaving the counter as it is
ResetGoodKept(gbc, s) == gbc

\* main.py:171-173
ResetGood(gbc, s) == [gbc EXCEPT ![s] = 0]

\* BumpGood without the creation of a missing counter at 0
BumpGoodNoCreate(gbc, s) == [gbc EXCEPT ![s] = @ + 1]

\* main.py:176-179
BumpGood(gbc, s) == [gbc EXCEPT ![s] = IF @ = NoCount THEN 1 ELSE @ + 1]

\* main.py:146-162: the handler is dispatched; throttle, then the marker is
\* set and the blocking classifier call begins
AnalyzeAdmit(h, current_time) ==
  /\ loop = 0
  /\ task[h].pc = "pending"
  /\ task[h].op = "analyze"
  /\ Now(current_time)
  /\ clock' = current_time
  /\ LET s == task[h].sid
     IN IF Throttled(ongoing_analysis, s, current_time)
          THEN /\ task' = [task EXCEPT ![h] = Finish(@)]
               /\ UNCHANGED <<ongoing_analysis, loop, last_start>>
          ELSE /\ ongoing_analysis' = [ongoing_analysis EXCEPT ![s] = current_time]
               /\ task' = [task EXCEPT ![h] =
                    [@ EXCEPT !.pc = "classify"]]
               /\ last_start' = [last_start EXCEPT ![s] = current_time]
               /\ loop' = h
  /\ UNCHANGED <<backend, active_sessions, good_behavior_count,
                 exam_sessions, monitoring_events, submissions, emitted, started>>
  /\ UNCHANGED <<norm, registry_op, report>>

\* main.py:171-200: the non-suspicious branch
GoodBehavior(h, s, a, raw) ==
  /\ good_behavior_count' = BumpGood(good_behavior_count, s)
  /\ emitted' =
       IF good_behavior_count'[s] % FeedbackEvery = 0 /\ active_sessions[s].socket_id # NoSocket
         THEN Append(emitted, Emit("positive_feedback", s, h))
         ELSE emitted
  /\ task' = [task EXCEPT ![h] = Finish([@ EXCEPT !.kind = raw, !.verdict = "clean"])]
  /\ loop' = 0
  /\ UNCHANGED <<exam_sessions, monitoring_events>>

\* main.py:229: the severity stored on the event
EventSeverity(a) == Get(a, "severity", 3)

\* main.py:225: the confidence stored on the event (the payload's tenths as hundredths)
EventConfidence(a) == 10 * Get(a, "confidence", 0)

\* main.py:236: what the event adds to the session's score
ScoreIncrement(a) == Get(a, "severity", 1)

\* storage_service.py:29-57  upload_screenshot: the URL of the stored object;
\* None without S3 credentials (31-32) or on a ClientError (55-57); any other
\* exception of the decoding or of the upload (an unreachable endpoint, a
\* frame that is not base64) is not caught there and leaves the call
UploadOutcomes == {"url", "none", "raised"}

\* main.py:227: the evidence reference stored on the event
EvidenceUrl(up) == IF up = "url" THEN "url" ELSE "null"

\* main.py:202-249: the suspicious branch up to the first await
RecordSuspicious(h, s, a, raw) ==
  LET type == Get(a, "alert_type", "suspicious_activity")
      row == exam_sessions[s]
      sess == [row EXCEPT !.cheating_score = @ + ScoreIncrement(a),
                          !.total_alerts = @ + 1]
  IN /\ good_behavior_count' = ResetGood(good_behavior_count, s)
     /\ UNCHANGED <<exam_sessions, monitoring_events>>
     /\ \E up \in UploadOutcomes :
          IF up = "raised"
            THEN \* the exception of 209 is caught at 285
                 /\ task' = [task EXCEPT ![h] =
                      [Finish([@ EXCEPT !.kind = raw, !.verdict = "suspicious"])
                         EXCEPT !.upload = "raised"]]
                 /\ loop' = 0
                 /\ emitted' = emitted
          ELSE IF type = "none" \/ type \notin AlertType
            THEN \* 218-220 return, or KeyError of AlertType[...] caught at 285
                 /\ task' = [task EXCEPT ![h] =
                      Finish([@ EXCEPT !.kind = raw, !.verdict = "suspicious"])]
                 /\ loop' = 0
                 /\ emitted' = emitted
          ELSE /\ task' = [task EXCEPT ![h] =
                    [@ EXCEPT !.pc = "recorded", !.kind = raw, !.during = FALSE,
                              !.verdict = "suspicious", !.upload = up,
                              !.sess = sess,
                              !.event = [session_id |-> s, event_type |-> type,
                                         severity |-> EventSeverity(a),
                                         confidence |-> EventConfidence(a),
                                         evidence_url |-> EvidenceUrl(up)],
                              !.dirty = {"cheating_score", "total_alerts"}]]
               /\ emitted' = WarnStudent(emitted, s, Warning(s, h, sess, WarningThreshold))
               /\ loop' = IF active_sessions[s].socket_id # NoSocket THEN 0 ELSE h

\* history: what the classifier answered, kept in the task for the record: the
\* alert kind of the payload as sent, "missing" without one, "error" for a failure
RawKind(o) == IF Failed(o) THEN "error" ELSE Get(o, "alert_type", "missing")

\* main.py:165-249: the classifier call returns (or raises), the marker is
\* cleared, and the handler runs on to its first await or database write
ClassifierReturn(h) ==
  /\ loop = h
  /\ task[h].pc = "classify"
  /\ \E o \in Outcomes :
       LET s == task[h].sid
           r == ServiceAnalyzeFrame(backend, o, confidence_threshold)
       IN /\ ongoing_analysis' = ClearOngoing(ongoing_analysis, s)
          /\ IF r.raised
               THEN /\ task' = [task EXCEPT ![h] = Finish([@ EXCEPT !.verdict = "raised"])]
                    /\ loop' = 0
                    /\ UNCHANGED <<good_behavior_count, exam_sessions,
                                   monitoring_events, emitted>>
               ELSE IF r.is_suspicious
                      THEN RecordSuspicious(h, s, r.analysis, RawKind(o))
                      ELSE GoodBehavior(h, s, r.analysis, RawKind(o))
  /\ UNCHANGED <<clock, backend, active_sessions, submissions, started, last_start>>
  /\ UNCHANGED <<norm, registry_op, report>>

\* main.py:252-266: threshold check and auto-submit on the loaded object
ThresholdCheck(h, utcnow) ==
  /\ loop \in {0, h}
  /\ Now(utcnow)
  /\ task[h].pc = "recorded"
  /\ task[h].op = "analyze"
  /\ LET s == task[h].sid
         sess == task[h].sess
     IN IF sess.cheating_score >= ExamThreshold /\ ~sess.is_submitted
          THEN /\ task' = [task EXCEPT ![h] =
                    [@ EXCEPT !.pc = "checked",
                              !.sess = [sess EXCEPT !.is_submitted = TRUE,
                                                    !.auto_submitted = TRUE,
                                                    !.end_time = utcnow],
                              !.dirty = @ \cup {"is_submitted", "auto_submitted", "end_time"}]]
               /\ clock' = utcnow
               /\ IF active_sessions[s].socket_id # NoSocket
                    THEN /\ emitted' = Append(emitted, Emit("exam_auto_submitted", s, h))
                         /\ loop' = 0
                    ELSE /\ emitted' = emitted
                         /\ loop' = h
          ELSE /\ task' = [task EXCEPT ![h] = [@ EXCEPT !.pc = "checked"]]
               /\ utcnow = clock
               /\ clock' = clock
               /\ emitted' = emitted
               /\ loop' = h
  /\ UNCHANGED <<backend, active_sessions, ongoing_analysis, good_behavior_count,
                 exam_sessions, monitoring_events, submissions, started, last_start>>
  /\ UNCHANGED <<norm, registry_op, report>>

\* main.py:268-289: db.commit() and the proctor broadcast; a failing commit
\* raises into the handler at 285
AnalyzeCommit(h) ==
  /\ loop \in {0, h}
  /\ task[h].pc = "checked"
  /\ LET s == task[h].sid
     IN \E ok \in BOOLEAN :
          IF ok
            THEN /\ monitoring_events' = Append(monitoring_events, task[h].event)
                 /\ exam_sessions' = [exam_sessions EXCEPT ![s] =
                      WriteBack(@, task[h].sess, task[h].dirty)]
                 /\ emitted' = NotifyProctors(emitted, s, h)
                 /\ UNCHANGED ongoing_analysis
            ELSE /\ ongoing_analysis' = ClearOngoing(ongoing_analysis, s)
                 /\ UNCHANGED <<monitoring_events, exam_sessions, emitted>>
  /\ task' = [task EXCEPT ![h] = Finish(@)]
  /\ loop' = 0
  /\ UNCHANGED <<clock, backend, active_sessions, good_behavior_count, submissions, started, last_start>>
  /\ UNCHANGED <<norm, registry_op, report>>

\* ------------------------------------------------------ tab_switch_detected
\* main.py:292-325: event, load of the session, increments, warning
TabRecord(h) ==
  /\ loop = 0
  /\ task[h].pc = "pending"
  /\ task[h].op = "tab"
  /\ LET s == task[h].sid
         row == exam_sessions[s]
     IN /\ task' = [task EXCEPT ![h] =
              [@ EXCEPT !.pc = "recorded",
                        !.sess = [row EXCEPT !.cheating_score = @ + TabSwitchSeverity,
                                             !.total_alerts = @ + 1],
                        !.dirty = {"cheating_score", "total_alerts"},
                        !.event = [session_id |-> s, event_type |-> "tab_switch",
                                   severity |-> TabSwitchSeverity,
                                   confidence |-> TabSwitchConfidence,
                                   evidence_url |-> "null"]]]
        /\ emitted' = WarnStudent(emitted, s, Warning(s, h, task'[h].sess, NoField))
        /\ loop' = IF active_sessions[s].socket_id # NoSocket THEN 0 ELSE h
  /\ UNCHANGED <<clock, backend, active_sessions, ongoing_analysis, good_behavior_count,
                 exam_sessions, monitoring_events, submissions, started, last_start>>
  /\ UNCHANGED <<norm, registry_op, report>>

\* main.py:327-340: db.commit() and the proctor broadcast
TabCommit(h) ==
  /\ loop \in {0, h}
  /\ task[h].pc = "recorded"
  /\ task[h].op = "tab"
  /\ LET s == task[h].sid
     IN \E ok \in BOOLEAN :
          IF ok
            THEN /\ monitoring_events' = Append(monitoring_events, task[h].event)
                 /\ exam_sessions' = [exam_sessions EXCEPT ![s] =
                      WriteBack(@, task[h].sess, task[h].dirty)]
                 /\ emitted' = NotifyProctors(emitted, s, h)
                 /\ task' = [task EXCEPT ![h] = Finish(@)]
            ELSE \* no except clause: the exception of 327 leaves the handler
                 /\ UNCHANGED <<monitoring_events, exam_sessions, emitted>>
                 /\ task' = [task EXCEPT ![h] = Raise(@)]
  /\ loop' = 0
  /\ UNCHANGED <<clock, backend, active_sessions, ongoing_analysis, good_behavior_count,
                 submissions, started, last_start>>
  /\ UNCHANGED <<norm, registry_op, report>>

\* -------------------------------------------------------------- submit_exam
\* main.py:634-671: a worker thread loads the session and checks it
SubmitRead(h, s) ==
  /\ task[h].pc = "idle"
  /\ \A g \in Handlers : g < h => task[g].pc # "idle"
  /\ s \in started
  /\ LET row == exam_sessions[s]
     IN task' = [task EXCEPT ![h] =
          IF row.is_submitted /\ s \notin submissions
            THEN \* 655: HTTPException 400
                 Raise([@ EXCEPT !.op = "submit", !.sid = s])
          ELSE IF s \in submissions
            THEN \* 654, 662: the existing submission is returned
                 Finish([@ EXCEPT !.op = "submit", !.sid = s])
            ELSE [@ EXCEPT !.op = "submit", !.sid = s, !.pc = "grading", !.sess = row]]
  /\ UNCHANGED <<clock, backend, active_sessions, ongoing_analysis, good_behavior_count,
                 exam_sessions, monitoring_events, submissions, emitted, started, loop, last_start>>
  /\ UNCHANGED <<norm, registry_op, report>>

\* main.py:716-720: the session is marked submitted and committed together
\* with the Submission row (session_id is unique, models.py:139)
SubmitCommit(h, utcnow) ==
  /\ task[h].pc = "grading"
  /\ Now(utcnow)
  /\ clock' = utcnow
  /\ LET s == task[h].sid
         sess == [task[h].sess EXCEPT !.is_submitted = TRUE, !.end_time = utcnow]
     IN IF s \in submissions
          THEN \* models.py:139: the unique session_id rejects the second row
               /\ UNCHANGED <<exam_sessions, submissions>>
               /\ task' = [task EXCEPT ![h] = Raise(@)]
          ELSE /\ exam_sessions' = [exam_sessions EXCEPT ![s] =
                    WriteBack(@, sess, {"is_submitted", "end_time"})]
               /\ submissions' = submissions \cup {s}
               /\ task' = [task EXCEPT ![h] = Finish(@)]
  /\ UNCHANGED <<backend, active_sessions, ongoing_analysis, good_behavior_count,
                 monitoring_events, emitted, started, loop, last_start>>
  /\ UNCHANGED <<norm, registry_op, report>>

\* ------------------------------------------------------------ specification
Next ==
  \/ \E k \in Sockets, s \in Sessions : JoinExamSession(k, s, StudentOf(s), ExamOf(s))
  \/ \E k \in Sockets : Disconnect(k)
  \/ \E h \in Handlers, s \in Sessions : Signal(h, "analyze", s)
  \/ \E h \in Handlers, s \in Sessions : Signal(h, "tab", s)
  \/ \E h \in Handlers, t \in 0..MaxTime : AnalyzeAdmit(h, t)
  \/ \E h \in Handlers : ClassifierReturn(h)
  \/ \E h \in Handlers, t \in 0..MaxTime : ThresholdCheck(h, t)
  \/ \E h \in Handlers : AnalyzeCommit(h)
  \/ \E h \in Handlers : TabRecord(h)
  \/ \E h \in Handlers : TabCommit(h)
  \/ \E h \in Handlers, s \in Sessions : SubmitRead(h, s)
  \/ \E h \in Handlers, t \in 0..MaxTime : SubmitCommit(h, t)

Spec == Init /\ [][Next]_vars

\* the classifier call ends: requests.post carries timeout=30 (ai_service.py:205-209)
FairSpec == Spec /\ WF_vars(\E h \in Handlers : ClassifierReturn(h))

\* The pipeline taken up when the session already has a streak of clean
\* checks behind it: one or two short of the feedback cadence, or one short of
\* its second multiple.
StreakBefore == {NoCount, FeedbackEvery - 2, FeedbackEvery - 1, 2 * FeedbackEvery - 1}

FeedbackInit == InitWith({1}, {"ollama", "openai"}, StreakBefore, {NoNorm})

FeedbackSpec == FeedbackInit /\ [][Next]_vars

\* Two students sit the exam at the same time (Ollama backend)
TwoSessionInit == InitWith({1, 2}, {"ollama"}, {NoCount}, {NoNorm})

TwoSessionSpec == TwoSessionInit /\ [][Next]_vars

\* ------------------------------------------------ the registry on its own
\* Joins and disconnects of three connections, with whatever student and exam
\* the joining client names (main.py:125-127 takes them from the message).
Connections == {"sockA", "sockB", "sockC"}

RegistryNext ==
  \/ \E k \in Connections, s \in Sessions, st \in Students, ex \in Exams :
       JoinExamSession(k, s, st, ex)
  \/ \E k \in Connections : Disconnect(k)

RegistrySpec == TwoSessionInit /\ [][RegistryNext]_vars

\* ---------------------------------------------- the behaviour report
\* Risk scores are kept in thousandths: an event of severity v and confidence
\* c hundredths adds v * c thousandths to risk_score / 10.  The arithmetic is
\* exact; the reported score is in hundredths.
RECURSIVE RiskSum(_)
RiskSum(evs) ==
  IF evs = <<>> THEN 0
  ELSE Head(evs).severity * Head(evs).confidence + RiskSum(Tail(evs))

\* ai_service.py:321  min(risk_score / 10, 10.0)
CappedRisk(evs) == IF RiskSum(evs) < 10000 THEN RiskSum(evs) ELSE 10000

\* ai_service.py:324-331: the band of a risk score in thousandths
Band(x) ==
  IF x < 2000 THEN "low"
  ELSE IF x < 5000 THEN "moderate"
  ELSE IF x < 8000 THEN "high"
  ELSE "critical"

\* ai_service.py:336  round(risk_score, 2), in hundredths: the nearest value,
\* and either neighbour for a score half way, where the float decides
Round2(x) ==
  IF x % 10 < 5 THEN {x \div 10}
  ELSE IF x % 10 > 5 THEN {x \div 10 + 1}
  ELSE {x \div 10, x \div 10 + 1}

\* ai_service.py:309-314  alert_breakdown
AlertBreakdown(evs) ==
  [k \in {evs[i].event_type : i \in DOMAIN evs} |->
     Cardinality({i \in DOMAIN evs : evs[i].event_type = k})]

\* ai_service.py:306-338  generate_behavior_report; `rounded` is the value
\* round() returns
GenerateBehaviorReport(evs, rounded) ==
  [total_alerts |-> Len(evs),
   alert_breakdown |-> AlertBreakdown(evs),
   risk_score |-> rounded,
   summary |-> Band(CappedRisk(evs))]

\* Rows the pipeline commits for a session: a tab switch, and classifier
\* events of confidence 0.98 and 0.90
ReportRows(s) ==
  { [session_id |-> s, event_type |-> "tab_switch",
     severity |-> TabSwitchSeverity, confidence |-> TabSwitchConfidence,
     evidence_url |-> "null"],
    [session_id |-> s, event_type |-> "looking_away", severity |-> 2, confidence |-> 98,
     evidence_url |-> "url"],
    [session_id |-> s, event_type |-> "phone_detected", severity |-> 5, confidence |-> 90,
     evidence_url |-> "url"] }

\* an event of the session is committed (main.py:268, 327)
StoreEvent(s) ==
  /\ s \in started
  /\ report.state = "none"
  /\ Len(monitoring_events) < MaxReportEvents
  /\ \E e \in ReportRows(s) : monitoring_events' = Append(monitoring_events, e)
  /\ UNCHANGED <<clock, backend, active_sessions, ongoing_analysis, good_behavior_count,
                 exam_sessions, submissions, emitted, started, task, loop, last_start,
                 norm, registry_op, report>>

\* main.py:757-778  get_behavior_report
GetBehaviorReport(s) ==
  /\ s \in started
  /\ report.state = "none"
  /\ LET OfSession(e) == e.session_id = s
         events == SelectSeq(monitoring_events, OfSession)
     IN \E rounded \in Round2(CappedRisk(events)) :
          report' = [state |-> "done", session_id |-> s, events |-> events]
                    @@ GenerateBehaviorReport(events, rounded)
  /\ UNCHANGED <<clock, backend, active_sessions, ongoing_analysis, good_behavior_count,
                 exam_sessions, monitoring_events, submissions, emitted, started, task,
                 loop, last_start, norm, registry_op>>

ReportNext ==
  \/ \E s \in Sessions : StoreEvent(s)
  \/ \E s \in Sessions : GetBehaviorReport(s)

ReportInit == InitWith({1}, {"ollama"}, {NoCount}, {NoNorm})

ReportSpec == ReportInit /\ [][ReportNext]_vars

\* ------------------------------------------------- the front end on its own
\* The classifier front end as a function of the payload and of the configured
\* threshold (ALERT_CONFIDENCE_THRESHOLD, ai_service.py:17): one call is
\* followed from its input to its results.
ConfidencesIn == {-1, 0, 4, 5, 6, 7, 10, MaxConfidenceIn}

SeveritiesIn == {-1, 0, 1, 3, 5, MaxSeverityIn}

KindsIn == AlertType \cup {"none", "bogus_value"}

ThresholdsIn == {5, confidence_threshold}

RawPayloads ==
  { Payload(hs,
            IF "is_suspicious" \in hs THEN f ELSE FALSE,
            IF "confidence" \in hs THEN c ELSE 0,
            IF "severity" \in hs THEN sv ELSE 0,
            IF "alert_type" \in hs THEN k ELSE "") :
      hs \in SUBSET AllKeys, f \in BOOLEAN, c \in ConfidencesIn,
      sv \in SeveritiesIn, k \in KindsIn }

NormInputs ==
  { [NoNorm EXCEPT !.stage = "raw", !.threshold = t, !.payload = p] :
      p \in RawPayloads, t \in ThresholdsIn }

NormInit == InitWith({1}, {"ollama", "openai"}, {NoCount}, NormInputs)

\* ai_service.py:22-32: the service is called with the payload
AnalyzeFrameCall ==
  /\ norm.stage = "raw"
  /\ LET r == ServiceAnalyzeFrame(backend, norm.payload, norm.threshold)
     IN norm' = [norm EXCEPT !.stage = "served", !.backend = backend,
                             !.record = r.analysis, !.decision = r.is_suspicious]
  /\ UNCHANGED <<clock, backend, active_sessions, ongoing_analysis, good_behavior_count,
                 exam_sessions, monitoring_events, submissions, emitted, started,
                 task, loop, last_start, registry_op, report>>

\* ai_service.py:258-286 applied to a record these lines have produced
Renormalize ==
  /\ norm.stage = "served"
  /\ norm.backend = "ollama"
  /\ LET r == AnalyzeWithOllama(norm.record, norm.threshold)
     IN norm' = [norm EXCEPT !.stage = "renormalized", !.again = r.analysis,
                             !.again_decision = r.is_suspicious]
  /\ UNCHANGED <<clock, backend, active_sessions, ongoing_analysis, good_behavior_count,
                 exam_sessions, monitoring_events, submissions, emitted, started,
                 task, loop, last_start, registry_op, report>>

NormNext == AnalyzeFrameCall \/ Renormalize

NormSpec == NormInit /\ [][NormNext]_vars

\* ------------------------------------------------------------ observations
RECURSIVE SumSeverity(_, _)
SumSeverity(evs, s) ==
  IF evs = <<>> THEN 0
  ELSE (IF Head(evs).session_id = s THEN Head(evs).severity ELSE 0)
       + SumSeverity(Tail(evs), s)

EventsOf(s) == {i \in DOMAIN monitoring_events : monitoring_events[i].session_id = s}

Emitted(name, s) ==
  {i \in DOMAIN emitted : emitted[i].name = name /\ emitted[i].session_id = s}

\* handler h takes the step
StepOf(h) == task'[h] # task[h]

\* the step emits a message called name
Emits(name) == Len(emitted') = Len(emitted) + 1 /\ emitted'[Len(emitted')].name = name

\* ------------------------------------------------------------------ claims

\* C1: while an analysis of a session is in flight, every other analyze_frame
\* signal for that session is rejected: a signal sent while an analysis of
\* its session was in flight is never admitted.
C1_SentDuringFlightNeverAdmitted ==
  \A h \in Handlers : task[h].pc = "classify" => ~task[h].during

\* C2: no committed state has a non-submitted session whose score is at or
\* above the exam's threshold (tab-switch and classifier events alike).
C2_AtThresholdIsSubmitted ==
  \A s \in started :
    exam_sessions[s].cheating_score >= ExamThreshold => exam_sessions[s].is_submitted

\* C3: a signal sent after its session was submitted is a no-op: its handler
\* changes no score, alert count or event and sends no warning or alert.
C3_LateSignalIsNoOp ==
  [][\A h \in Handlers :
       (task[h].late /\ StepOf(h)) =>
         /\ exam_sessions' = exam_sessions
         /\ monitoring_events' = monitoring_events
         /\ ~Emits("cheating_warning")
         /\ ~Emits("cheating_alert")]_vars

\* C4: a session's cumulative score equals the sum of the severities stored
\* on its recorded MonitoringEvents.
C4_ScoreIsSumOfSeverities ==
  \A s \in started :
    exam_sessions[s].cheating_score = SumSeverity(monitoring_events, s)

\* C5: once is_submitted is true, is_submitted, auto_submitted and end_time
\* never change again.
C5_SubmissionIsFinal ==
  [][\A s \in started :
       exam_sessions[s].is_submitted =>
         /\ exam_sessions'[s].is_submitted = exam_sessions[s].is_submitted
         /\ exam_sessions'[s].auto_submitted = exam_sessions[s].auto_submitted
         /\ exam_sessions'[s].end_time = exam_sessions[s].end_time]_vars

\* C6: exam_auto_submitted is emitted at most once per session, under any
\* interleaving of the handlers.
C6_TerminationNoticeAtMostOnce ==
  \A s \in started : Cardinality(Emitted("exam_auto_submitted", s)) <= 1

\* C7: no update is lost when handlers of one session overlap: every
\* recorded event is matched by its increment of total_alerts.
C7_NoLostUpdate ==
  \A s \in started : exam_sessions[s].total_alerts = Cardinality(EventsOf(s))

\* C8: an analyze_frame signal handled less than 2.0 time units after the
\* start of the session's last admitted analysis is rejected, also when that
\* analysis has completed.
C8_RejectedWithinMinInterval ==
  [][\A h \in Handlers :
       (/\ task[h].pc = "pending" /\ task[h].op = "analyze" /\ StepOf(h)
        /\ last_start[task[h].sid] # NoTime
        /\ clock' - last_start[task[h].sid] < MinInterval)
       => task'[h].pc = "done"]_vars

\* C9: the in-flight marker of a session is present only while an analysis of
\* that session is in flight, and every admitted analysis is followed by a
\* state in which the session has no marker, whichever way the analysis ends.
C9_MarkerAlwaysCleared ==
  /\ [](\A s \in Sessions : ongoing_analysis[s] # NoMark => InFlight(s))
  /\ \A s \in Sessions : InFlight(s) ~> (ongoing_analysis[s] = NoMark)

\* an admitted analysis has ended by the exception of an unconfigured
\* classifier, and the marker is gone
C9_Witness ==
  \E h \in Handlers :
    /\ backend = "unconfigured"
    /\ task[h].op = "analyze" /\ task[h].pc = "done"
    /\ last_start[task[h].sid] # NoTime
    /\ ongoing_analysis[task[h].sid] = NoMark

\* the classifier's alert kind is "none", or a value outside the enumeration
NoneKind(k) == k = "none" \/ (k \notin {"missing", "error"} /\ k \notin AlertType)

C11_CounterZeroAfterEvent ==
  [][\A s \in started :
       (/\ Len(monitoring_events') = Len(monitoring_events) + 1
        /\ monitoring_events'[Len(monitoring_events')].session_id = s)
       => good_behavior_count'[s] \in {0, NoCount}]_vars

\* handler h leaves the classifier call in this step
LeavesClassify(h) == task[h].pc = "classify" /\ task'[h].pc # "classify"

\* the step is a non-suspicious cycle of h: the counter of its session grows
GoodCycle(h) ==
  /\ LeavesClassify(h)
  /\ good_behavior_count'[task[h].sid] > 0
  /\ good_behavior_count'[task[h].sid] # good_behavior_count[task[h].sid]

\* C12: positive feedback is produced exactly on the non-suspicious cycles
\* after which the session's counter is a positive multiple of 15, and then
\* only if a connection is registered for the session; no other step
\* produces it.
C12_FeedbackOnMultiplesOnly ==
  [][/\ \A h \in Handlers :
          LeavesClassify(h) =>
            ((Emits("positive_feedback") /\ emitted'[Len(emitted')].by = h)
             <=> (/\ GoodCycle(h)
                  /\ good_behavior_count'[task[h].sid] % FeedbackEvery = 0
                  /\ active_sessions[task[h].sid].socket_id # NoSocket))
     /\ Emits("positive_feedback") => \E h \in Handlers : LeavesClassify(h)]_vars

\* 16 clean checks in a row: the 15th produced feedback, the 16th did not
C12_Witness ==
  /\ good_behavior_count[1] = FeedbackEvery + 1
  /\ Cardinality(Emitted("positive_feedback", 1)) = 1

\* the messages handler invocation h has sent to the student about its event
StudentNotices == {"cheating_warning", "exam_auto_submitted"}

\* C13: for every recorded event, the cheating_warning and the
\* exam_auto_submitted notice of the event come before its cheating_alert
\* broadcast, never after it.
C13_StudentToldBeforeProctors ==
  \A i \in DOMAIN emitted, j \in DOMAIN emitted :
    (/\ emitted[i].name = "cheating_alert"
     /\ emitted[j].by = emitted[i].by
     /\ emitted[j].name \in StudentNotices) => j < i

\* one event brought a warning, then the termination notice, then the broadcast
C13_Witness ==
  \E i \in DOMAIN emitted, j \in DOMAIN emitted, k \in DOMAIN emitted :
    /\ i < j /\ j < k
    /\ emitted[i].by = emitted[k].by /\ emitted[j].by = emitted[k].by
    /\ emitted[i].name = "cheating_warning"
    /\ emitted[j].name = "exam_auto_submitted"
    /\ emitted[k].name = "cheating_alert"

\* the step records an event of session s
Records(s) ==
  /\ Len(monitoring_events') = Len(monitoring_events) + 1
  /\ monitoring_events'[Len(monitoring_events')].session_id = s

\* C14: every recorded event is broadcast to the proctors with cheating_alert,
\* with or without a connection registered for the student; without one, only
\* the student-facing warning and termination notice are left out.
C14_ProctorsAlwaysInformed ==
  [][\A s \in started :
       /\ Records(s) =>
            /\ Emits("cheating_alert")
            /\ emitted'[Len(emitted')].session_id = s
       /\ (/\ active_sessions[s].socket_id = NoSocket
           /\ Len(emitted') > Len(emitted)
           /\ emitted'[Len(emitted')].session_id = s)
          => emitted'[Len(emitted')].name \notin StudentNotices]_vars

\* an event was recorded and broadcast for a student who got no warning,
\* being disconnected
C14_Witness ==
  \E i \in DOMAIN emitted :
    /\ emitted[i].name = "cheating_alert"
    /\ active_sessions[emitted[i].session_id].socket_id = NoSocket
    /\ \A j \in DOMAIN emitted : emitted[j].by = emitted[i].by => j = i
    /\ \E e \in DOMAIN monitoring_events :
         monitoring_events[e].session_id = emitted[i].session_id

\* C15: a classifier failure (transport error, timeout, unparseable answer)
\* is returned as not suspicious, with confidence 0.0 and an error tag, and
\* the analyze_frame cycle that got it creates no MonitoringEvent, changes no
\* score and emits no cheating_warning, exam_auto_submitted or cheating_alert.
C15_FailureIsNotSuspicious ==
  [][\A h \in Handlers :
       (LeavesClassify(h) /\ task'[h].kind = "error") =>
         LET r == ServiceAnalyzeFrame(backend, ClassifierFailure, confidence_threshold)
         IN /\ ~r.raised
            /\ ~r.is_suspicious
            /\ "error" \in r.analysis.has
            /\ Get(r.analysis, "is_suspicious", TRUE) = FALSE
            /\ Get(r.analysis, "confidence", -1) = 0
            /\ task'[h].pc = "done"
            /\ exam_sessions' = exam_sessions
            /\ monitoring_events' = monitoring_events
            /\ ~Emits("cheating_warning")
            /\ ~Emits("exam_auto_submitted")
            /\ ~Emits("cheating_alert")]_vars

\* a cycle has ended on a classifier failure and counted as a clean check
C15_Witness ==
  \E h \in Handlers :
    /\ task[h].pc = "done" /\ task[h].kind = "error"
    /\ backend \in {"ollama", "openai"}
    /\ good_behavior_count[task[h].sid] >= 1

\* C16: the Normalizer returns the alert kind as it came for every member of
\* the closed enumeration (looking_away, multiple_people, phone_detected,
\* reading_from_material, tab_switch, suspicious_activity, none) and "none"
\* for every other value and for a missing one.
C16_KindKeptIffEnumerated ==
  (norm.stage = "served" /\ norm.backend = "ollama") =>
    norm.record.alert_type =
      IF /\ "alert_type" \in norm.payload.has
         /\ norm.payload.alert_type \in AlertType \cup {"none"}
        THEN norm.payload.alert_type
        ELSE "none"

\* the record is one analyze_frame records an event from (main.py:202-231)
UsedForEvent ==
  /\ norm.stage = "served"
  /\ norm.decision
  /\ Get(norm.record, "alert_type", "suspicious_activity") \in AlertType

\* C17: every analysis record analyze_frame gets from the service and records
\* an event from carries a severity in 1..5 and a confidence in [0.0, 1.0],
\* whichever backend produced it, so the score grows by 1 to 5.
C17_RecordWithinRanges ==
  UsedForEvent =>
    /\ "severity" \in norm.record.has
    /\ norm.record.severity \in 1..5
    /\ "confidence" \in norm.record.has
    /\ norm.record.confidence \in 0..10
    /\ ScoreIncrement(norm.record) \in 1..5
    /\ EventSeverity(norm.record) \in 1..5

\* C18: the decision returned by the service is true exactly when the
\* payload's is_suspicious flag is true and its confidence, clamped to
\* [0.0, 1.0] (0.5 when missing), is at least the configured threshold.
C18_DecisionIsFlagAndConfidence ==
  norm.stage = "served" =>
    (norm.decision <=>
       /\ Get(norm.payload, "is_suspicious", FALSE)
       /\ Clamp(0, 10, Get(norm.payload, "confidence", 5)) >= norm.threshold)

\* C19: the Normalizer's rules applied to a record they produced give the
\* same record and the same decision.
C19_NormalizeIdempotent ==
  norm.stage = "renormalized" =>
    /\ norm.again = norm.record
    /\ norm.again_decision = norm.decision

\* a payload that the Normalizer had to change in kind, severity and
\* confidence has been normalized twice
C19_Witness ==
  /\ norm.stage = "renormalized"
  /\ norm.payload.has = AllKeys
  /\ norm.payload.alert_type = "bogus_value"
  /\ norm.payload.severity = MaxSeverityIn
  /\ norm.payload.confidence = MaxConfidenceIn
  /\ norm.payload.is_suspicious
  /\ norm.decision

\* C20: a tab-switch signal is never rejected and its handler leaves every
\* in-flight marker as it is, whatever the throttle state; the event it
\* records has severity 2, and recording it adds exactly 2 to the session's
\* score and 1 to its total_alerts.
C20_TabSwitchAddsTwo ==
  [][\A h \in Handlers :
       (task[h].op = "tab" /\ task[h].pc \in {"pending", "recorded"} /\ StepOf(h)) =>
         LET s == task[h].sid
         IN /\ ongoing_analysis' = ongoing_analysis
            /\ task[h].pc = "pending" => task'[h].pc = "recorded"
            /\ Records(s) =>
                 /\ monitoring_events'[Len(monitoring_events')].event_type = "tab_switch"
                 /\ monitoring_events'[Len(monitoring_events')].severity = TabSwitchSeverity
                 /\ exam_sessions'[s].cheating_score =
                      exam_sessions[s].cheating_score + TabSwitchSeverity
                 /\ exam_sessions'[s].total_alerts = exam_sessions[s].total_alerts + 1]_vars

\* the handler of a dispatched signal h can start now
CanStart(h) ==
  ENABLED (TabRecord(h) \/ \E t \in 0..MaxTime : AnalyzeAdmit(h, t))

\* C21: operations on different sessions never block one another: while an
\* analysis of one session waits for the classifier, a signal of another
\* session that is waiting to be handled can be admitted and processed.
C21_OtherSessionNotBlocked ==
  \A h \in Handlers, g \in Handlers :
    (/\ task[g].pc = "classify"
     /\ task[h].pc = "pending"
     /\ task[h].sid # task[g].sid) => CanStart(h)

\* C22: after a join the session's entry is exactly the joining connection,
\* student and exam (also in get_live_sessions), whatever entry the session
\* had before; repeating the join changes nothing; the entries of the other
\* sessions are as they were.
C22_JoinLastWriterWins ==
  registry_op.op = "join" =>
    LET s == registry_op.session_id
    IN /\ active_sessions[s] = [socket_id |-> registry_op.socket_id,
                                student_id |-> registry_op.student_id,
                                exam_id |-> registry_op.exam_id]
       /\ [session_id |-> s, student_id |-> registry_op.student_id,
           exam_id |-> registry_op.exam_id] \in GetLiveSessions(active_sessions)
       /\ Join(active_sessions, s, registry_op.socket_id, registry_op.student_id,
               registry_op.exam_id) = active_sessions
       /\ \A x \in Sessions \ {s} : active_sessions[x] = registry_op.before[x]

\* a session has joined again on another connection while the other session
\* was registered
C22_Witness ==
  /\ registry_op.op = "join"
  /\ registry_op.before[registry_op.session_id] # NoEntry
  /\ registry_op.before[registry_op.session_id].socket_id # registry_op.socket_id
  /\ \E x \in Sessions \ {registry_op.session_id} : active_sessions[x] # NoEntry

\* C23: a disconnect removes exactly the entries registered on the
\* disconnecting connection and leaves every other entry as it was, the entry
\* of a session that has moved to another connection included.
C23_DisconnectRemovesOwnEntries ==
  registry_op.op = "disconnect" =>
    \A s \in Sessions :
      active_sessions[s] =
        IF registry_op.before[s].socket_id = registry_op.socket_id
          THEN NoEntry
          ELSE registry_op.before[s]

\* sockA has disconnected after session 1 had joined again on sockB: the
\* entry of session 2, still on sockA, is gone and that of session 1 is kept
C23_Witness ==
  /\ registry_op.op = "disconnect"
  /\ registry_op.socket_id = "sockA"
  /\ registry_op.before[1].socket_id = "sockB"
  /\ registry_op.before[2].socket_id = "sockA"
  /\ active_sessions[1] = registry_op.before[1]
  /\ active_sessions[2] = NoEntry

\* C24: the behaviour report gives the number of events of each alert kind,
\* the risk score min(sum(severity * confidence) / 10, 10.0) (to the two
\* decimals it is reported with) and the summary of the band of that score;
\* the reported score lies in the band the reported summary names.
C24_ReportScoreAndBandAgree ==
  report.state = "done" =>
    LET evs == report.events
    IN /\ report.total_alerts = Len(evs)
       /\ \A k \in AlertType :
            Cardinality({i \in DOMAIN evs : evs[i].event_type = k}) =
              IF k \in DOMAIN report.alert_breakdown THEN report.alert_breakdown[k] ELSE 0
       /\ report.risk_score \in Round2(CappedRisk(evs))
       /\ report.summary = Band(CappedRisk(evs))
       /\ report.summary = Band(10 * report.risk_score)

\* C25: a failure of the evidence store while a suspicious analysis of an
\* enumerated kind is handled is not fatal: the handler goes on with an event
\* whose evidence reference is null and with the increments of score and
\* alert count, and the connected student is warned.
C25_StoreFailureIsNotFatal ==
  [][\A h \in Handlers :
       (/\ LeavesClassify(h)
        /\ task'[h].verdict = "suspicious"
        /\ task'[h].kind \in AlertType
        /\ task'[h].upload \in {"none", "raised"})
       => LET s == task[h].sid
          IN /\ task'[h].pc = "recorded"
             /\ task'[h].event.evidence_url = "null"
             /\ task'[h].sess.cheating_score > exam_sessions[s].cheating_score
             /\ task'[h].sess.total_alerts = exam_sessions[s].total_alerts + 1
             /\ active_sessions[s].socket_id # NoSocket => Emits("cheating_warning")]_vars

\* the step is the commit of handler h, and the commit fails
CommitFails(h) ==
  /\ task[h].pc \in {"checked", "recorded"}
  /\ task'[h].pc = "done"
  /\ monitoring_events' = monitoring_events

\* the step sends a notice of handler h to the student
NotifiesStudent(h) ==
  /\ Len(emitted') = Len(emitted) + 1
  /\ emitted'[Len(emitted')].by = h
  /\ emitted'[Len(emitted')].name \in StudentNotices

\* C26: a cheating_warning or exam_auto_submitted notice goes to the student
\* only after the change it reports is committed: when it is sent, the stored
\* row of the session has the score, alert count and termination it reports,
\* and a handler whose commit fails has sent no such notice.
C26_NoticeOnlyAfterCommit ==
  [][\A h \in Handlers :
       /\ NotifiesStudent(h) =>
            LET s == task'[h].sid
            IN /\ exam_sessions'[s].cheating_score = task'[h].sess.cheating_score
               /\ exam_sessions'[s].total_alerts = task'[h].sess.total_alerts
               /\ emitted'[Len(emitted')].name = "exam_auto_submitted"
                    => exam_sessions'[s].auto_submitted
       /\ CommitFails(h) =>
            \A i \in DOMAIN emitted :
              emitted[i].by = h => emitted[i].name \notin StudentNotices]_vars

\* C27: a failure of the commit of an event and score update leaves the entry
\* point as an error, not as a normal return; the stored score, alert count
\* and events of the session are unchanged, and the session has no throttle
\* marker of that handler afterwards.
C27_CommitFailureIsSurfaced ==
  [][\A h \in Handlers :
       CommitFails(h) =>
         /\ task'[h].outcome = "raised"
         /\ exam_sessions' = exam_sessions
         /\ monitoring_events' = monitoring_events
         /\ task[h].op = "analyze" => ongoing_analysis'[task[h].sid] = NoMark]_vars

\* C28: a session with auto_submitted true is always submitted, has an end
\* time and a score of at least the exam's cheating threshold; and a session
\* that is submitted without auto_submitted (by submit_exam) never gets
\* auto_submitted set afterwards.
C28_AutoSubmittedIsConsistent ==
  /\ [](\A s \in started :
          exam_sessions[s].auto_submitted =>
            /\ exam_sessions[s].is_submitted
            /\ exam_sessions[s].end_time # NoTime
            /\ exam_sessions[s].cheating_score >= ExamThreshold)
  /\ [][\A s \in started :
          (exam_sessions[s].is_submitted /\ ~exam_sessions[s].auto_submitted)
            => ~exam_sessions'[s].auto_submitted]_vars

\* the counter of session s as the code reads it
CountOf(gbc, s) == IF gbc[s] = NoCount THEN 0 ELSE gbc[s]

\* C29 as stated: every admitted analyze_frame cycle sets the counter of its
\* session to 0 when the final decision is suspicious and otherwise adds
\* exactly 1 to it; no other step changes a counter.
C29_EveryCycleResetsOrBumps ==
  [][/\ \A h \in Handlers :
          LeavesClassify(h) =>
            LET s == task[h].sid
            IN IF task'[h].verdict = "suspicious"
                 THEN good_behavior_count'[s] = 0
                 ELSE good_behavior_count'[s] = CountOf(good_behavior_count, s) + 1
     /\ good_behavior_count' # good_behavior_count
          => \E h \in Handlers : LeavesClassify(h)]_vars

\* C29: every admitted analyze_frame cycle in which the classifier service
\* returns sets the counter of its session to 0 when the decision is
\* suspicious (also when the kind is none and nothing is recorded) and
\* otherwise adds exactly 1 to it, classifier failures included; a cycle in
\* which the service raises leaves the counter as it is; no other step
\* changes a counter, and a cycle changes no other session's counter.
C29_ReturnedCycleResetsOrBumps ==
  [][/\ \A h \in Handlers :
          LeavesClassify(h) =>
            LET s == task[h].sid
            IN /\ task'[h].verdict = "suspicious" => good_behavior_count'[s] = 0
               /\ task'[h].verdict = "clean" =>
                    good_behavior_count'[s] = CountOf(good_behavior_count, s) + 1
               /\ task'[h].verdict = "raised" =>
                    good_behavior_count'[s] = good_behavior_count[s]
               /\ task'[h].verdict \in {"suspicious", "clean", "raised"}
               /\ \A x \in Sessions \ {s} :
                    good_behavior_count'[x] = good_behavior_count[x]
     /\ good_behavior_count' # good_behavior_count
          => \E h \in Handlers : LeavesClassify(h)]_vars

\* a clean cycle took the counter to 1, then a suspicious cycle whose kind
\* is outside the enumeration, which records nothing, set it back to 0
C29_Witness ==
  \E h \in Handlers, g \in Handlers :
    /\ task[h].pc = "done" /\ task[h].verdict = "clean"
    /\ task[g].pc = "done" /\ task[g].verdict = "suspicious" /\ NoneKind(task[g].kind)
    /\ task[g].sid = task[h].sid
    /\ good_behavior_count[task[g].sid] = 0
    /\ monitoring_events = <<>>

\* C30: every cheating_warning sent for a classifier-sourced event carries
\* the alert count and the score of the session after the event's increment
\* and a threshold field equal to the cheating threshold of the session's
\* exam.
C30_WarningCarriesExamThreshold ==
  [][\A h \in Handlers :
       (LeavesClassify(h) /\ Emits("cheating_warning")) =>
         LET s == task[h].sid
             msg == emitted'[Len(emitted')]
         IN /\ msg.warning_count = exam_sessions[s].total_alerts + 1
            /\ msg.cheating_score = task'[h].sess.cheating_score
            /\ msg.cheating_score > exam_sessions[s].cheating_score
            /\ msg.threshold = ExamThreshold]_vars

====
